---- MODULE Spec2Model ----
(***************************************************************************)
(* Asynchronous query execution of RedashClient: executeQuery,             *)
(* executeQueryById and pollQueryResults (src/unnamed/part_001, 356-457).  *)
(*                                                                         *)
(* One operation runs at a time.  Time is in milliseconds; it advances     *)
(* only while the operation is suspended in an await (an HTTP request or   *)
(* the setTimeout sleep).  JavaScript optional values are sets of at most  *)
(* one element: {} is undefined, {x} is the value x.  Message strings are  *)
(* sequences of their parts, template literals concatenate them.           *)
(***************************************************************************)
EXTENDS Integers, Sequences, FiniteSets, TLC

VARIABLES
    pc,           \* where the operation is suspended
    entry,        \* the method the caller invoked
    queryId,      \* executeQueryById's queryId argument
    jobId,        \* pollQueryResults' jobId
    timeout,      \* pollQueryResults' timeout parameter
    interval,     \* pollQueryResults' interval parameter
    startTime,    \* pollQueryResults' startTime
    now,          \* Date.now()
    pollOutcome,  \* how pollQueryResults settled
    outcome,      \* how the invoked method settled
    posts,        \* submission POSTs issued
    jobReqs,      \* GET /api/jobs/{jobId} issued
    fetches,      \* GET /api/query_results/{id} issued
    submitBody,   \* response.data of the submission POST
    nonTerminal,  \* job responses that neither completed nor failed
    terminalJob,  \* the job of the response that reported status 3 or 4
    fetchId,      \* the id the result fetch was issued for
    fetchBody,    \* resultsResponse.data
    lastJobReqAt, \* Date.now() when the latest job-status request was issued
    lastReqDur,   \* how long the latest job-status request took
    lastLag,      \* how late the latest setTimeout fired
    pollErrors,   \* errors caught by pollQueryResults' catch
    reqsAtError,  \* requests issued when the first such error was caught
    lastStatus,   \* job.status of the response handled in this loop iteration
    outstanding,  \* job-status requests issued and not yet answered
    rejected,     \* the error a request of this operation rejected with
    supplied,     \* timeout and interval the caller passed to the entry point
    prevFetch,    \* the latest result fetch answered to an earlier operation
    env,          \* process.env: REDASH_URL and REDASH_API_KEY
    redashClient, \* the exported, process-wide client
    got,          \* how getRedashClient() settled since the latest initialization
    initOutcome,  \* how the latest initializeRedashClient() settled
    lastBuilt     \* the client the latest constructor that returned has built

\* what an operation works on, and what the module holds
opVars == <<pc, entry, queryId, jobId, timeout, interval, startTime, now,
            pollOutcome, outcome, posts, jobReqs, fetches, submitBody,
            nonTerminal, terminalJob, fetchId, fetchBody, lastJobReqAt,
            lastReqDur, lastLag, pollErrors, reqsAtError, lastStatus,
            outstanding, rejected, supplied, prevFetch>>
clientVars == <<env, redashClient, got, initOutcome, lastBuilt>>
vars == <<opVars, clientVars>>

(***************************************************************************)
(* Bounds of the model and constants of the program                        *)
(***************************************************************************)
\* a request takes 0..MaxLatencySteps steps of LatencyUnit
MaxLatencySteps == 1
\* a timer fires 0..MaxLagSteps steps of LatencyUnit late
MaxLagSteps == 1

DefaultTimeout == 60000
DefaultInterval == 1000
STATUS_COMPLETED == 3
STATUS_FAILED == 4
\* parseInt(process.env.REDASH_TIMEOUT || '30000') with REDASH_TIMEOUT unset
DefaultRequestTimeout == 30000

\* the step of the delays the environment adds: 20 s, below axios' own timeout
LatencyUnit == DefaultTimeout \div 3
Latencies == {k * LatencyUnit : k \in 0..MaxLatencySteps}
TimerLags == {k * LatencyUnit : k \in 0..MaxLagSteps}

\* arguments a direct caller of pollQueryResults passes
TimeoutArgs == {0, 2 * DefaultInterval, 3 * DefaultInterval}
IntervalArgs == {DefaultInterval, 2 * DefaultInterval}
QueryIds == {5}
JobIds == {"abc"}

(***************************************************************************)
(* Values                                                                  *)
(***************************************************************************)
None == {}
Some(x) == {x}
Get(o) == CHOOSE x \in o : TRUE
\* JavaScript truthiness of an optional value of the model
Truthy(o) == o # None

\* a timeout and an interval a caller passes after the declared parameters
SuppliedArgs ==
    {None, Some([timeout |-> 3 * DefaultInterval, interval |-> 2 * DefaultInterval])}

QueryResult(id) == [shape |-> "QueryResult", id |-> id]
MalformedBody == [shape |-> "Malformed"]
ResultIds == {42}

\* response.data of the submission endpoints
SubmitBodies ==
    [shape : {"SubmitBody"},
     job : {None, Some([id |-> "abc"])},
     query_result : {None, Some(QueryResult(10))}]

ErrorTexts == {"division by zero"}

\* response.data.job of GET /api/jobs/{jobId}
Jobs ==
    [status : {None, Some(0), Some(1), Some(2), Some(5)},
     query_result_id : {None}, error : {None}]
    \cup [status : {Some(STATUS_COMPLETED)},
          query_result_id : {None} \cup {Some(i) : i \in ResultIds},
          error : {None}]
    \cup [status : {Some(STATUS_FAILED)},
          query_result_id : {None},
          error : {None} \cup {Some(e) : e \in ErrorTexts}]

JobBodies == {[job |-> None]} \cup {[job |-> Some(j)] : j \in Jobs}

\* resultsResponse.data of GET /api/query_results/{id}, for the id asked for
FetchBodies(id) ==
    IF id = None THEN {MalformedBody} ELSE {QueryResult(Get(id)), MalformedBody}

\* error.response.data of a non-2xx response
ErrorData ==
    {None,
     Some([t |-> "string", text |-> "Internal Server Error"]),
     Some([t |-> "object", message |-> Some("boom"), json |-> "{\"message\":\"boom\"}"]),
     Some([t |-> "object", message |-> None, json |-> "{\"detail\":\"x\"}"])}

\* new Error(message)
NewError(message) == [type |-> "Error", message |-> message, response |-> None]

\* what axios rejects with: no response received, or a non-2xx response
TransportErrors == {NewError(<<"connect ECONNREFUSED">>)}
HttpErrors ==
    {[type |-> "Error",
      message |-> <<"Request failed with status code ", ToString(500)>>,
      response |-> Some([status |-> 500, data |-> d])] : d \in ErrorData}
AxiosErrors == TransportErrors \cup HttpErrors

Contains(message, part) == \E i \in 1..Len(message) : message[i] = part

Pending == [kind |-> "pending", value |-> None, message |-> <<>>]
Returned(v) == [kind |-> "returned", value |-> v, message |-> <<>>]
Thrown(message) == [kind |-> "thrown", value |-> None, message |-> message]

\* process.env, and the arguments initializeRedashClient is called with
Envs ==
    [REDASH_URL : {None, Some("https://env.example")},
     REDASH_API_KEY : {None, Some("envkey")}]
ConfiguredEnv ==
    [REDASH_URL |-> Some("https://env.example"), REDASH_API_KEY |-> Some("envkey")]
UrlArgs == {None, Some(""), Some("https://a.example"), Some("https://b.example")}
KeyArgs == {None, Some("argkey")}
RequestTimeoutArgs == {None, Some(0), Some(5000)}
RejectUnauthorizedArgs == {None, Some(TRUE), Some(FALSE)}

(***************************************************************************)
(* The code's expressions                                                  *)
(***************************************************************************)
\* JavaScript truthiness of an optional string, and a || b
TruthyString(o) == o # None /\ Get(o) # ""
OrElse(a, b) == IF TruthyString(a) THEN a ELSE b

\* timeout || parseInt(process.env.REDASH_TIMEOUT || '30000')
RequestTimeout(arg) ==
    IF arg # None /\ Get(arg) # 0 THEN Get(arg) ELSE DefaultRequestTimeout

\* rejectUnauthorized !== undefined ? rejectUnauthorized : true, with neither
\* NODE_TLS_REJECT_UNAUTHORIZED nor REDASH_IGNORE_SSL_ERRORS set
ShouldRejectUnauthorized(arg) == IF arg # None THEN Get(arg) ELSE TRUE

\* new RedashClient(baseUrl, apiKey, timeout, rejectUnauthorized): constructor
\* parameters, then process.env
NewRedashClient(baseUrl, apiKey, timeoutArg, rejectArg, e) ==
    LET url == OrElse(OrElse(baseUrl, e.REDASH_URL), Some(""))
        key == OrElse(OrElse(apiKey, e.REDASH_API_KEY), Some(""))
    IN  IF ~TruthyString(url) \/ ~TruthyString(key)
        THEN Thrown(<<"REDASH_URL and REDASH_API_KEY must be provided either as constructor parameters or in .env file">>)
        ELSE Returned(Some([baseUrl |-> Get(url), apiKey |-> Get(key),
                            timeout |-> RequestTimeout(timeoutArg),
                            rejectUnauthorized |-> ShouldRejectUnauthorized(rejectArg)]))

\* try { redashClient = new RedashClient() } catch { redashClient = undefined }
LoadedClient(e) ==
    LET built == NewRedashClient(None, None, None, None, e)
    IN  IF built.kind = "returned" THEN built.value ELSE None

\* a failed initialization that clears the client, as the catch at load does
HeldClearedOnFailure(held) == None

\* redashClient = new RedashClient(...): not assigned when the constructor throws
HeldAfterFailedInit(held) == held

\* getRedashClient(): if (!redashClient) throw ...; return redashClient
GetRedashClientResult(held) ==
    IF ~Truthy(held)
    THEN Thrown(<<"RedashClient not initialized. Please call initializeRedashClient() first or ensure proper configuration is available.">>)
    ELSE Returned(held)

\* a parameter declared without its default
DefaultParamMissing(arg, default) == IF arg = None THEN 0 ELSE Get(arg)

\* a defaulted parameter: `timeout = 60000`, `interval = 1000`
DefaultParam(arg, default) == IF arg = None THEN default ELSE Get(arg)

\* `${x}` of an optional string
Template(o) == IF o = None THEN "undefined" ELSE Get(o)

\* the result payload looked at before the job descriptor
HasJobAndNoResult(data) == Truthy(data.job) /\ ~Truthy(data.query_result)

\* if (response.data.job)
HasJob(data) == Truthy(data.job)

\* executeQuery: return response.data.query_result
ExecuteQueryImmediate(data) == data.query_result

\* executeQueryById: return response.data
ExecuteQueryByIdImmediate(data) == Some(data)

\* executeQuery's catch: `Failed to execute query: ${error.message}`
ExecuteQueryCatch(error) ==
    IF error.type = "Error"
    THEN <<"Failed to execute query: ">> \o error.message
    ELSE <<"Failed to execute query: ", "String(error)">>

\* executeQueryById's catch: `Failed to execute query ${queryId}`
ExecuteQueryByIdCatch(id, error) == <<"Failed to execute query ", ToString(id)>>

\* the loop condition with the start time forgotten, and with <= for <
LoopConditionNoStart(t, start, limit) == t < limit
LoopConditionInclusive(t, start, limit) == t - start <= limit

\* while (Date.now() - startTime < timeout)
LoopCondition(t, start, limit) == t - start < limit

\* a completed status honoured only while the deadline has not passed
IsCompletedInTime(job) ==
    job.status = Some(STATUS_COMPLETED) /\ now' - startTime < timeout

\* job.status === 3, job.status === 4, if (job.query_result_id)
IsCompleted(job) == job.status = Some(STATUS_COMPLETED)
\* every code from 4 upwards taken for a failure
IsFailedOrBeyond(job) == job.status # None /\ Get(job.status) >= STATUS_FAILED
IsFailed(job) == job.status = Some(STATUS_FAILED)
\* the completed branch without its check of query_result_id
HasResultIdUnchecked(job) == TRUE
HasResultId(job) == Truthy(job.query_result_id)

NoResultIdError == NewError(<<"Query completed but no query_result_id was provided">>)
\* the failure error without the backend's text
JobFailedErrorNoText(job) == NewError(<<"Query execution failed">>)
JobFailedError(job) == NewError(<<"Query execution failed: ", Template(job.error)>>)
\* reading .status of an undefined response.data.job
JobUndefinedError == NewError(<<"Cannot read properties of undefined (reading 'status')">>)
\* the timeout error with the bound in seconds
TimeoutErrorSeconds(limit) ==
    NewError(<<"Query execution timed out after ", ToString(limit \div 1000), "s">>)
TimeoutError(limit) ==
    NewError(<<"Query execution timed out after ", ToString(limit), "ms">>)

\* the message pollQueryResults' catch builds
PollErrorMessage(job, error) ==
    LET base == <<"Failed to poll for query results (job ", job, ")">>
    IN  IF Truthy(error.response)
        THEN LET response == Get(error.response)
             IN  IF Truthy(response.data)
                 THEN LET data == Get(response.data)
                      IN  IF data.t = "string"
                          THEN base \o <<": ", data.text>>
                          ELSE IF Truthy(data.message)
                               THEN base \o <<": ", Get(data.message)>>
                               ELSE base \o <<": ", data.json>>
                 ELSE base \o <<": HTTP ", ToString(response.status)>>
        ELSE IF error.type = "Error"
             THEN base \o <<": ">> \o error.message
             ELSE IF error.type = "string"
                  THEN base \o <<": ">> \o error.message
                  ELSE base

\* the result unwrapped once too often: resultsResponse.data.query_result
PollResultUnwrapped(data) == None

\* the result stamped with the local clock
PollResultStamped(data) == Some([shape |-> "Stamped", body |-> data, at |-> now])

\* return resultsResponse.data
PollResult(data) == Some(data)

\* a timer armed without its delay
SleepDurationNoDelay(delay, lag) == lag

\* setTimeout(resolve, interval) resolves after at least interval
SleepDuration(delay, lag) == delay + lag

(***************************************************************************)
(* How the invoked method settles                                          *)
(***************************************************************************)
\* the invoked method's promise once pollQueryResults has returned v
OutcomeOfReturn(v) == Returned(v)

\* the invoked method's promise once error has reached its catch
OutcomeOfThrow(error) ==
    CASE entry = "executeQuery" -> Thrown(ExecuteQueryCatch(error))
      [] entry = "executeQueryById" -> Thrown(ExecuteQueryByIdCatch(queryId, error))
      [] OTHER -> Thrown(error.message)

\* pollQueryResults returns v
PollReturns(v) ==
    /\ pc' = "done"
    /\ pollOutcome' = Returned(v)
    /\ outcome' = OutcomeOfReturn(v)

\* pollQueryResults throws error to its caller
PollThrows(error) ==
    /\ pc' = "done"
    /\ pollOutcome' = Thrown(error.message)
    /\ outcome' = OutcomeOfThrow(error)

\* a catch that swallows the error and goes round the loop again
PollAttemptRetries(error) ==
    /\ pc' = "loop"
    /\ pollErrors' = pollErrors + 1
    /\ reqsAtError' = IF pollErrors = 0 THEN jobReqs + fetches ELSE reqsAtError
    /\ UNCHANGED <<pollOutcome, outcome>>

\* an error thrown inside the try of pollQueryResults: caught, rethrown
PollAttemptFails(error) ==
    /\ PollThrows(NewError(PollErrorMessage(jobId, error)))
    /\ pollErrors' = pollErrors + 1
    /\ reqsAtError' = IF pollErrors = 0 THEN jobReqs + fetches ELSE reqsAtError

\* a catch that submits again
SubmitRetries(error) ==
    /\ pc' = "post"
    /\ posts' = posts + 1
    /\ UNCHANGED outcome

\* the submission POST failed: caught by the invoked method, rethrown
SubmitFails(error) ==
    /\ pc' = "done"
    /\ outcome' = OutcomeOfThrow(error)
    /\ UNCHANGED posts

\* a result cache consulted before the GET
FetchResultCached(job) ==
    IF prevFetch # None /\ Get(prevFetch).id = job.query_result_id
    THEN /\ PollReturns(PollResult(Get(prevFetch).body))
         /\ UNCHANGED <<fetches, fetchId, pollErrors, reqsAtError>>
    ELSE /\ fetches' = fetches + 1
         /\ fetchId' = job.query_result_id
         /\ pc' = "getResult"
         /\ UNCHANGED <<pollOutcome, outcome, pollErrors, reqsAtError>>

\* the completed job has a result id: GET /api/query_results/{id}, awaited
FetchResult(job) ==
    /\ fetches' = fetches + 1
    /\ fetchId' = job.query_result_id
    /\ pc' = "getResult"
    /\ UNCHANGED <<pollOutcome, outcome, pollErrors, reqsAtError>>

\* the job-status GET issued without await
JobStatusNotAwaited == "loop"

\* await this.client.get(`/api/jobs/${jobId}`): suspended until it settles
AwaitJobStatus == "getJob"

\* a sleep whose timer never calls resolve
SleepNeverResolves == "asleep"

\* await new Promise(resolve => setTimeout(resolve, interval)): the loop resumes
AfterSleep == "loop"

\* pollQueryResults(jobId, timeout, interval) is entered
EnterPoll(job, timeoutArg, intervalArg) ==
    /\ jobId' = job
    /\ timeout' = DefaultParam(timeoutArg, DefaultTimeout)
    /\ interval' = DefaultParam(intervalArg, DefaultInterval)
    /\ startTime' = now'
    /\ pc' = "loop"

(***************************************************************************)
(* Initial state and actions                                               *)
(***************************************************************************)
InitOperation ==
    /\ pc = "idle"
    /\ entry = "none"
    /\ queryId = 0
    /\ jobId = ""
    /\ timeout = 0
    /\ interval = 0
    /\ startTime = 0
    /\ now = 0
    /\ pollOutcome = Pending
    /\ outcome = Pending
    /\ posts = 0
    /\ jobReqs = 0
    /\ fetches = 0
    /\ submitBody = None
    /\ nonTerminal = 0
    /\ terminalJob = None
    /\ fetchId = None
    /\ fetchBody = None
    /\ lastJobReqAt = 0
    /\ lastReqDur = 0
    /\ lastLag = 0
    /\ pollErrors = 0
    /\ reqsAtError = 0
    /\ lastStatus = None
    /\ outstanding = 0
    /\ rejected = None
    /\ supplied = None
    /\ prevFetch = None

\* the module has been loaded with process.env = e
ModuleLoaded(e) ==
    /\ env = e
    /\ redashClient = LoadedClient(e)
    /\ got = Pending
    /\ initOutcome = Pending
    /\ lastBuilt = LET built == NewRedashClient(None, None, None, None, e)
                   IN  IF built.kind = "returned" THEN built.value ELSE None

\* operations run in a process whose environment configures the client
Init == InitOperation /\ ModuleLoaded(ConfiguredEnv)

\* the client's lifecycle starts from any environment
ClientInit == InitOperation /\ \E e \in Envs : ModuleLoaded(e)

\* executeQuery(query, dataSourceId, parameters, maxAge): POST /api/query_results
ExecuteQuery ==
    /\ pc = "idle"
    /\ UNCHANGED clientVars
    /\ entry' = "executeQuery"
    /\ \E extra \in SuppliedArgs : supplied' = extra
    /\ posts' = posts + 1
    /\ pc' = "post"
    /\ UNCHANGED <<queryId, jobId, timeout, interval, startTime, now, pollOutcome,
                   outcome, jobReqs, fetches, submitBody, nonTerminal, terminalJob,
                   fetchId, fetchBody, lastJobReqAt, lastReqDur, lastLag,
                   pollErrors, reqsAtError, lastStatus, outstanding, rejected,
                   prevFetch>>

\* executeQueryById(queryId, parameters): POST /api/queries/{queryId}/results
ExecuteQueryById ==
    /\ pc = "idle"
    /\ UNCHANGED clientVars
    /\ \E id \in QueryIds : queryId' = id
    /\ entry' = "executeQueryById"
    /\ \E extra \in SuppliedArgs : supplied' = extra
    /\ posts' = posts + 1
    /\ pc' = "post"
    /\ UNCHANGED <<jobId, timeout, interval, startTime, now, pollOutcome,
                   outcome, jobReqs, fetches, submitBody, nonTerminal, terminalJob,
                   fetchId, fetchBody, lastJobReqAt, lastReqDur, lastLag,
                   pollErrors, reqsAtError, lastStatus, outstanding, rejected,
                   prevFetch>>

\* pollQueryResults(jobId, timeout, interval) called on its own
PollQueryResults ==
    /\ pc = "idle"
    /\ UNCHANGED clientVars
    /\ entry' = "pollQueryResults"
    /\ now' = now
    /\ \E job \in JobIds, t \in TimeoutArgs, i \in IntervalArgs :
          EnterPoll(job, Some(t), Some(i))
    /\ UNCHANGED <<queryId, pollOutcome, outcome, posts, jobReqs, fetches,
                   submitBody, nonTerminal, terminalJob, fetchId, fetchBody,
                   lastJobReqAt, lastReqDur, lastLag, pollErrors, reqsAtError,
                   lastStatus, outstanding, rejected, supplied, prevFetch>>

\* the submission POST resolves with a 2xx response
SubmitResponds ==
    /\ pc = "post"
    /\ UNCHANGED clientVars
    /\ \E latency \in Latencies, data \in SubmitBodies :
          /\ now' = now + latency
          /\ submitBody' = Some(data)
          /\ IF HasJob(data)
             THEN /\ EnterPoll(Get(data.job).id, None, None)
                  /\ UNCHANGED outcome
             ELSE /\ pc' = "done"
                  /\ outcome' = IF entry = "executeQuery"
                                THEN Returned(ExecuteQueryImmediate(data))
                                ELSE Returned(ExecuteQueryByIdImmediate(data))
                  /\ UNCHANGED <<jobId, timeout, interval, startTime>>
    /\ UNCHANGED <<entry, queryId, pollOutcome, posts, jobReqs, fetches,
                   nonTerminal, terminalJob, fetchId, fetchBody, lastJobReqAt,
                   lastReqDur, lastLag, pollErrors, reqsAtError, lastStatus,
                   outstanding, rejected, supplied, prevFetch>>

\* the submission POST rejects: no response, or a non-2xx response
SubmitRejects ==
    /\ pc = "post"
    /\ UNCHANGED clientVars
    /\ \E latency \in Latencies, error \in AxiosErrors :
          /\ now' = now + latency
          /\ rejected' = Some(error)
          /\ SubmitFails(error)
    /\ UNCHANGED <<entry, queryId, jobId, timeout, interval, startTime,
                   pollOutcome, jobReqs, fetches, submitBody, nonTerminal,
                   terminalJob, fetchId, fetchBody, lastJobReqAt, lastReqDur,
                   lastLag, pollErrors, reqsAtError, lastStatus, outstanding,
                   supplied, prevFetch>>

\* the loop condition is evaluated: GET /api/jobs/{jobId}, or the timeout error
LoopCheck ==
    /\ pc = "loop"
    /\ UNCHANGED clientVars
    /\ IF LoopCondition(now, startTime, timeout)
       THEN /\ jobReqs' = jobReqs + 1
            /\ outstanding' = outstanding + 1
            /\ lastJobReqAt' = now
            /\ pc' = AwaitJobStatus
            /\ UNCHANGED <<pollOutcome, outcome>>
       ELSE /\ PollThrows(TimeoutError(timeout))
            /\ UNCHANGED <<jobReqs, outstanding, lastJobReqAt>>
    /\ UNCHANGED <<entry, queryId, jobId, timeout, interval, startTime, now,
                   posts, fetches, submitBody, nonTerminal, terminalJob, fetchId,
                   fetchBody, lastReqDur, lastLag, pollErrors, reqsAtError,
                   lastStatus, rejected, supplied, prevFetch>>

\* the job-status GET resolves with a 2xx response
JobResponds ==
    /\ pc = "getJob"
    /\ UNCHANGED clientVars
    /\ \E latency \in Latencies, data \in JobBodies :
          /\ now' = now + latency
          /\ lastReqDur' = latency
          /\ outstanding' = outstanding - 1
          /\ lastStatus' = IF data.job = None THEN lastStatus
                                              ELSE Some(Get(data.job).status)
          /\ IF data.job = None
             THEN /\ PollAttemptFails(JobUndefinedError)
                  /\ UNCHANGED <<fetches, fetchId, nonTerminal, terminalJob>>
             ELSE LET job == Get(data.job)
                  IN  IF IsCompleted(job)
                      THEN /\ terminalJob' = Some(job)
                           /\ UNCHANGED nonTerminal
                           /\ IF HasResultId(job)
                              THEN FetchResult(job)
                              ELSE /\ PollAttemptFails(NoResultIdError)
                                   /\ UNCHANGED <<fetches, fetchId>>
                      ELSE IF IsFailed(job)
                      THEN /\ terminalJob' = Some(job)
                           /\ PollAttemptFails(JobFailedError(job))
                           /\ UNCHANGED <<fetches, fetchId, nonTerminal>>
                      ELSE /\ nonTerminal' = nonTerminal + 1
                           /\ pc' = "sleep"
                           /\ UNCHANGED <<fetches, fetchId, terminalJob,
                                          pollOutcome, outcome, pollErrors,
                                          reqsAtError>>
    /\ UNCHANGED <<entry, queryId, jobId, timeout, interval, startTime, posts,
                   jobReqs, submitBody, fetchBody, lastJobReqAt, lastLag,
                   rejected, supplied, prevFetch>>

\* the job-status GET rejects
JobRejects ==
    /\ pc = "getJob"
    /\ UNCHANGED clientVars
    /\ \E latency \in Latencies, error \in AxiosErrors :
          /\ now' = now + latency
          /\ lastReqDur' = latency
          /\ outstanding' = outstanding - 1
          /\ rejected' = Some(error)
          /\ PollAttemptFails(error)
    /\ UNCHANGED <<entry, queryId, jobId, timeout, interval, startTime, posts,
                   jobReqs, fetches, submitBody, nonTerminal, terminalJob,
                   fetchId, fetchBody, lastJobReqAt, lastLag, lastStatus,
                   supplied, prevFetch>>

\* the result GET resolves with a 2xx response: return resultsResponse.data
ResultResponds ==
    /\ pc = "getResult"
    /\ UNCHANGED clientVars
    /\ \E latency \in Latencies, data \in FetchBodies(fetchId) :
          /\ now' = now + latency
          /\ fetchBody' = Some(data)
          /\ PollReturns(PollResult(data))
    /\ UNCHANGED <<entry, queryId, jobId, timeout, interval, startTime, posts,
                   jobReqs, fetches, submitBody, nonTerminal, terminalJob,
                   fetchId, lastJobReqAt, lastReqDur, lastLag, pollErrors,
                   reqsAtError, lastStatus, outstanding, rejected, supplied,
                   prevFetch>>

\* the result GET rejects
ResultRejects ==
    /\ pc = "getResult"
    /\ UNCHANGED clientVars
    /\ \E latency \in Latencies, error \in AxiosErrors :
          /\ now' = now + latency
          /\ rejected' = Some(error)
          /\ PollAttemptFails(error)
    /\ UNCHANGED <<entry, queryId, jobId, timeout, interval, startTime, posts,
                   jobReqs, fetches, submitBody, nonTerminal, terminalJob,
                   fetchId, fetchBody, lastJobReqAt, lastReqDur, lastLag,
                   lastStatus, outstanding, supplied, prevFetch>>

\* the setTimeout of the sleep fires
TimerFires ==
    /\ pc = "sleep"
    /\ UNCHANGED clientVars
    /\ \E lag \in TimerLags :
          /\ now' = now + SleepDuration(interval, lag)
          /\ lastLag' = lag
    /\ lastStatus' = None
    /\ pc' = AfterSleep
    /\ UNCHANGED <<entry, queryId, jobId, timeout, interval, startTime,
                   pollOutcome, outcome, posts, jobReqs, fetches, submitBody,
                   nonTerminal, terminalJob, fetchId, fetchBody, lastJobReqAt,
                   lastReqDur, pollErrors, reqsAtError, outstanding, rejected,
                   supplied, prevFetch>>

\* the caller has its answer; the next invocation starts afresh
Reset ==
    /\ pc = "done"
    /\ UNCHANGED clientVars
    /\ pc' = "idle"
    /\ entry' = "none"
    /\ queryId' = 0
    /\ jobId' = ""
    /\ timeout' = 0
    /\ interval' = 0
    /\ startTime' = 0
    /\ now' = 0
    /\ pollOutcome' = Pending
    /\ outcome' = Pending
    /\ posts' = 0
    /\ jobReqs' = 0
    /\ fetches' = 0
    /\ submitBody' = None
    /\ nonTerminal' = 0
    /\ terminalJob' = None
    /\ fetchId' = None
    /\ fetchBody' = None
    /\ lastJobReqAt' = 0
    /\ lastReqDur' = 0
    /\ lastLag' = 0
    /\ pollErrors' = 0
    /\ reqsAtError' = 0
    /\ lastStatus' = None
    /\ outstanding' = 0
    /\ rejected' = None
    /\ supplied' = None
    /\ prevFetch' = IF fetchBody = None
                    THEN prevFetch
                    ELSE Some([id |-> fetchId, body |-> Get(fetchBody),
                               result |-> pollOutcome.value])

\* initializeRedashClient(baseUrl, apiKey, timeout, rejectUnauthorized)
InitializeRedashClient ==
    /\ \E baseUrl \in UrlArgs, apiKey \in KeyArgs,
          timeoutArg \in RequestTimeoutArgs, rejectArg \in RejectUnauthorizedArgs :
          LET built == NewRedashClient(baseUrl, apiKey, timeoutArg, rejectArg, env)
          IN  /\ initOutcome' = built
              /\ IF built.kind = "returned"
                 THEN /\ redashClient' = built.value
                      /\ lastBuilt' = built.value
                 ELSE /\ redashClient' = HeldAfterFailedInit(redashClient)
                      /\ UNCHANGED lastBuilt
    /\ got' = Pending
    /\ UNCHANGED <<env, opVars>>

\* getRedashClient()
GetRedashClient ==
    /\ got' = GetRedashClientResult(redashClient)
    /\ UNCHANGED <<env, redashClient, initOutcome, lastBuilt, opVars>>

Next ==
    \/ ExecuteQuery
    \/ ExecuteQueryById
    \/ PollQueryResults
    \/ SubmitResponds
    \/ SubmitRejects
    \/ LoopCheck
    \/ JobResponds
    \/ JobRejects
    \/ ResultResponds
    \/ ResultRejects
    \/ TimerFires
    \/ Reset

Spec == Init /\ [][Next]_vars

\* one operation, from its invocation to its outcome
NextOnce ==
    \/ ExecuteQuery
    \/ ExecuteQueryById
    \/ PollQueryResults
    \/ SubmitResponds
    \/ SubmitRejects
    \/ LoopCheck
    \/ JobResponds
    \/ JobRejects
    \/ ResultResponds
    \/ ResultRejects
    \/ TimerFires

\* every HTTP request settles, every timer fires, and the loop's synchronous
\* continuation runs
Fairness ==
    /\ WF_vars(SubmitResponds \/ SubmitRejects)
    /\ WF_vars(JobResponds \/ JobRejects)
    /\ WF_vars(ResultResponds \/ ResultRejects)
    /\ WF_vars(TimerFires)
    /\ WF_vars(LoopCheck)

LiveSpec == Init /\ [][NextOnce]_vars /\ Fairness

\* the process-wide client: loaded, initialized, asked for
ClientNext ==
    \/ InitializeRedashClient
    \/ GetRedashClient

ClientSpec == ClientInit /\ [][ClientNext]_vars

(***************************************************************************)
(* Properties                                                              *)
(***************************************************************************)
Done == pc = "done"
Submitted == entry \in {"executeQuery", "executeQueryById"}
Elapsed == now - startTime
\* pollQueryResults ended with its timeout error
TimedOut ==
    /\ pollOutcome.kind = "thrown"
    /\ Contains(pollOutcome.message, "Query execution timed out after ")
\* the job of the terminal response: completed with, or without, a result id
CompletedWith(id) ==
    terminalJob = Some([status |-> Some(3), query_result_id |-> Some(id), error |-> None])
CompletedWithoutId ==
    terminalJob = Some([status |-> Some(3), query_result_id |-> None, error |-> None])
FailedWith(text) ==
    terminalJob = Some([status |-> Some(4), query_result_id |-> None, error |-> Some(text)])
\* the submission answered with a result payload and no job descriptor
ImmediateResult ==
    /\ submitBody # None
    /\ Get(submitBody).job = None
    /\ Get(submitBody).query_result # None

\* C1: a submission (executeQuery or executeQueryById) whose response body holds
\* a result payload and no job descriptor returns exactly that payload, and
\* issues no job-status request and no result fetch.
C1_ImmediateResultReturnedUnchanged ==
    (Done /\ Submitted /\ ImmediateResult)
        => /\ outcome = Returned(Get(submitBody).query_result)
           /\ jobReqs = 0
           /\ fetches = 0

\* C2: when the job reports Completed with a resultId and the fetch of that
\* resultId answers, pollQueryResults returns exactly the body of
\* GET /api/query_results/{resultId}, and so does the submission that polled.
C2_CompletedReturnsFetchedBody ==
    \A id \in ResultIds :
        (Done /\ CompletedWith(id) /\ fetchBody # None)
            => /\ fetchId = Some(id)
               /\ fetches = 1
               /\ pollOutcome = Returned(fetchBody)
               /\ Submitted => outcome = Returned(fetchBody)

C2_Witness ==
    /\ Done
    /\ entry = "executeQuery"
    /\ CompletedWith(42)
    /\ fetchBody = Some(QueryResult(42))
    /\ outcome = Returned(Some(QueryResult(42)))

\* C3: when the job reports Failed (status 4) with an error text,
\* pollQueryResults throws an error whose message holds the failure prefix and
\* the backend's text verbatim, and no result fetch is issued.
C3_FailedJobThrowsBackendText ==
    \A text \in ErrorTexts :
        FailedWith(text)
            => /\ Done
               /\ pollOutcome.kind = "thrown"
               /\ Contains(pollOutcome.message, "Query execution failed: ")
               /\ Contains(pollOutcome.message, text)
               /\ fetches = 0

C3_Witness ==
    /\ Done
    /\ FailedWith("division by zero")
    /\ nonTerminal = 1
    /\ pollOutcome.kind = "thrown"

\* C4: for executeQuery and for executeQueryById, when the submission returned
\* a job and the job reports Failed with an error text, the operation fails
\* with an error whose message contains that text.
C4_SubmissionFailureCarriesBackendText ==
    \A text \in ErrorTexts :
        (Submitted /\ FailedWith(text))
            => /\ outcome.kind = "thrown"
               /\ Contains(outcome.message, text)

\* C5 as stated: a poll that times out does so no earlier than timeoutMs and
\* no later than timeoutMs + pollIntervalMs after it started.
C5_TimeoutWithinOneInterval ==
    TimedOut => /\ Elapsed >= timeout
                /\ Elapsed <= timeout + interval

\* C5 as amended: a poll that saw no terminal status and no error ends with the
\* timeout error, no earlier than timeoutMs after it started, and later than
\* timeoutMs by less than its last iteration took: the last job-status
\* request, pollIntervalMs, and the lateness of the last timer.
C5_TimeoutWithinLastIteration ==
    /\ (Done /\ pollOutcome.kind # "pending" /\ terminalJob = None /\ pollErrors = 0)
           => TimedOut
    /\ TimedOut
           => /\ Elapsed >= timeout
              /\ Elapsed <= timeout + lastReqDur + interval + lastLag
              /\ jobReqs > 0 => Elapsed < timeout + lastReqDur + interval + lastLag

C5_Witness ==
    /\ Done
    /\ TimedOut
    /\ jobReqs > 0
    /\ Elapsed > timeout + interval

\* C6: a poll response that reports Completed (status 3) without a resultId
\* makes the operation fail with the protocol-violation error: nothing is
\* returned, no result fetch is issued, and the job is not polled again.
C6_CompletedWithoutResultIdFails ==
    CompletedWithoutId
        => /\ Done
           /\ pollOutcome.kind = "thrown"
           /\ Contains(pollOutcome.message,
                       "Query completed but no query_result_id was provided")
           /\ outcome.kind = "thrown"
           /\ fetches = 0
           /\ jobReqs = nonTerminal + 1

C6_Witness ==
    /\ Done
    /\ CompletedWithoutId
    /\ Submitted
    /\ outcome.kind = "thrown"

\* C7: whenever the loop condition is evaluated with elapsed >= timeoutMs, no
\* further job-status request is issued and the poll fails with the timeout
\* error, however many polls there were.
C7_TimeoutIsHardCeiling ==
    [][(pc = "loop" /\ now - startTime >= timeout)
          => /\ jobReqs' = jobReqs
             /\ pc' = "done"
             /\ pollOutcome'.kind = "thrown"
             /\ Contains(pollOutcome'.message, "Query execution timed out after ")
             /\ outcome'.kind = "thrown"]_vars

C7_Witness ==
    /\ Done
    /\ TimedOut
    /\ jobReqs >= 2
    /\ Elapsed = timeout

\* C8: the first error raised in a poll attempt (a rejected job-status or
\* result request, an unreadable job body, a terminal failure) ends the
\* operation in failure: no request is issued after it and nothing is retried.
C8_PollErrorAbortsOperation ==
    pollErrors > 0
        => /\ pollErrors = 1
           /\ Done
           /\ pollOutcome.kind = "thrown"
           /\ outcome.kind = "thrown"
           /\ jobReqs + fetches = reqsAtError

C8_Witness ==
    /\ Done
    /\ pollErrors = 1
    /\ nonTerminal >= 1
    /\ terminalJob = None
    /\ outcome.kind = "thrown"

\* C9: an execution operation issues exactly one submission POST, whatever
\* fails afterwards.
C9_SingleSubmission ==
    /\ Submitted => posts = 1
    /\ ~Submitted => posts = 0

C9_Witness ==
    /\ Done
    /\ Submitted
    /\ submitBody = None
    /\ outcome.kind = "thrown"
    /\ posts = 1

\* C10: a non-terminal poll response is followed by a sleep of at least
\* pollIntervalMs, so consecutive job-status requests are at least
\* pollIntervalMs apart; a job completing with a resultId after n non-terminal
\* responses takes exactly n + 1 job-status requests and one result fetch.
C10_PollsSpacedByInterval ==
    /\ [][/\ nonTerminal' = nonTerminal + 1 => pc' = "sleep"
          /\ pc = "sleep" => (pc' = "loop" /\ now' >= now + interval)
          /\ (jobReqs' = jobReqs + 1 /\ jobReqs >= 1)
                => now' - lastJobReqAt >= interval]_vars
    /\ [](fetches > 0 => (fetches = 1 /\ jobReqs = nonTerminal + 1))

C10_Witness ==
    /\ Done
    /\ nonTerminal = 2
    /\ jobReqs = 3
    /\ fetches = 1
    /\ pollOutcome.kind = "returned"
    /\ now - startTime >= 2 * interval

\* the raw body of a non-2xx response
RawBody(data) == IF data.t = "string" THEN data.text ELSE data.json
\* pollQueryResults has been entered
PollEntered == jobId # ""

\* C11: a job status other than 3 and 4 (1, 2, 5, 0, or none at all) neither
\* returns nor fails: the poll sleeps and polls again, so a poll that met only
\* such statuses, and no error, can only end with the timeout error.
C11_OtherStatusesKeepPolling ==
    /\ (lastStatus # None /\ Get(lastStatus) \notin {Some(3), Some(4)})
           => /\ pc = "sleep"
              /\ pollOutcome = Pending
              /\ outcome = Pending
    /\ (Done /\ PollEntered /\ terminalJob = None /\ pollErrors = 0) => TimedOut

C11_Witness ==
    /\ pc = "sleep"
    /\ lastStatus = Some(Some(5))
    /\ nonTerminal = 2

\* C12: at most one job-status request is outstanding; a request is issued
\* only when none is outstanding and, after the first, no earlier than the
\* previous response plus the interval; every response handled is that of
\* the one outstanding request, so responses are seen in the order asked.
C12_PollsAreSequential ==
    /\ [](outstanding \in {0, 1})
    /\ [][/\ jobReqs' = jobReqs + 1
             => /\ outstanding = 0
                /\ jobReqs >= 1 => now' >= lastJobReqAt + lastReqDur + interval
          /\ (lastStatus' # lastStatus /\ lastStatus' # None)
             => (outstanding = 1 /\ outstanding' = 0)]_vars

C12_Witness ==
    /\ pc = "getJob"
    /\ outstanding = 1
    /\ jobReqs = 3
    /\ nonTerminal = 2

\* C13: a submission polls only after its POST answered with a job; a result
\* is fetched only after a response reported Completed with a result id, once
\* and for that id; after a terminal status no job-status request is issued.
C13_DispatcherPollerFetcherOrder ==
    /\ (Submitted /\ jobReqs > 0)
           => (submitBody # None /\ Get(submitBody).job # None)
    /\ fetches > 0
           => /\ fetches = 1
              /\ \E id \in ResultIds : CompletedWith(id) /\ fetchId = Some(id)
    /\ terminalJob # None
           => /\ jobReqs = nonTerminal + 1
              /\ outstanding = 0
              /\ pc \in {"getResult", "done"}

C13_Witness ==
    /\ Done
    /\ entry = "executeQueryById"
    /\ CompletedWith(42)
    /\ fetches = 1
    /\ nonTerminal = 1
    /\ pollOutcome.kind = "returned"

\* C14: an operation whose fetch of a result id is answered with the body an
\* earlier operation got for the same id returns the value that operation
\* returned.
C14_FetchIsIdempotent ==
    (/\ Done
     /\ prevFetch # None
     /\ fetchBody # None
     /\ fetchId = Get(prevFetch).id
     /\ Get(fetchBody) = Get(prevFetch).body)
        => pollOutcome = Returned(Get(prevFetch).result)

C14_Witness ==
    /\ Done
    /\ prevFetch = Some([id |-> Some(42), body |-> QueryResult(42),
                         result |-> Some(QueryResult(42))])
    /\ fetchId = Some(42)
    /\ fetchBody = Some(QueryResult(42))
    /\ pollOutcome.kind = "returned"

\* C15: every operation whose job completes with a result id issues its own
\* GET for that id, also when an earlier operation fetched the same id, and
\* what it returns is the body of its own fetch; an operation without such a
\* response fetches nothing, so fetches and such responses are equal in number.
C15_ResultsAreNeverCached ==
    /\ \A id \in ResultIds :
           CompletedWith(id)
               => /\ fetches = 1
                  /\ fetchId = Some(id)
                  /\ pollOutcome.kind = "returned"
                         => (fetchBody # None /\ pollOutcome.value = fetchBody)
    /\ (\A id \in ResultIds : ~CompletedWith(id)) => fetches = 0

C15_Witness ==
    /\ pc = "getResult"
    /\ prevFetch # None
    /\ Get(prevFetch).id = fetchId
    /\ fetches = 1

\* C16: a result fetch that is rejected, or answered with a body that is no
\* QueryResult, makes the operation fail; a malformed body is never returned.
C16_MalformedFetchBodyIsAnError ==
    /\ (Done /\ fetches = 1 /\ fetchBody = None) => outcome.kind = "thrown"
    /\ (Done /\ fetchBody = Some(MalformedBody))
           => /\ outcome.kind = "thrown"
              /\ pollOutcome.value # Some(MalformedBody)

\* C17: a submission POST answered with a non-2xx response makes the operation
\* fail with an error carrying the HTTP status code and the raw response body.
C17_SubmitHttpErrorCarriesStatusAndBody ==
    \A e \in HttpErrors :
        (Done /\ Submitted /\ posts = 1 /\ jobReqs = 0 /\ rejected = Some(e))
            => /\ outcome.kind = "thrown"
               /\ Contains(outcome.message, ToString(Get(e.response).status))
               /\ Get(e.response).data # None
                      => Contains(outcome.message, RawBody(Get(Get(e.response).data)))

\* C18: when a request of executeQuery or executeQueryById gets no response,
\* the error the caller sees has a message including the cause's message.
C18_TransportErrorCarriesCause ==
    \A e \in TransportErrors :
        (Done /\ Submitted /\ rejected = Some(e))
            => /\ outcome.kind = "thrown"
               /\ \A i \in 1..Len(e.message) : Contains(outcome.message, e.message[i])

\* C19 as stated: the timeout error carries the job id and the elapsed time.
C19_TimeoutErrorCarriesJobIdAndElapsed ==
    TimedOut => /\ Contains(pollOutcome.message, jobId)
                /\ Contains(pollOutcome.message, ToString(Elapsed))

\* C19 as amended: the timeout error's message is the configured timeout
\* bound, `Query execution timed out after ${timeout}ms`; it names neither
\* the job id nor the time that actually elapsed.
C19_TimeoutErrorCarriesBound ==
    TimedOut
        => /\ pollOutcome.message
                  = <<"Query execution timed out after ", ToString(timeout), "ms">>
           /\ ~Contains(pollOutcome.message, jobId)

C19_Witness ==
    /\ Done
    /\ TimedOut
    /\ entry = "executeQuery"
    /\ timeout = 60000
    /\ Elapsed > timeout

Ceil(a, b) == (a + b - 1) \div b

\* C22: one poll issues at most ceil(timeout / interval) job-status requests;
\* a job that never becomes terminal, polled with requests that take no time
\* and timers that fire on time, gets exactly that many before the timeout
\* error (60 for 60000 ms and 1000 ms).
C22_PollCountBounded ==
    /\ jobId # "" => jobReqs <= Ceil(timeout, interval)
    /\ (Done /\ TimedOut /\ Elapsed = nonTerminal * interval)
           => jobReqs = Ceil(timeout, interval)

C22_Witness ==
    /\ Done
    /\ TimedOut
    /\ timeout = 60000
    /\ interval = 1000
    /\ jobReqs = 60
    /\ nonTerminal = 60

\* C24: for every response body of the submission, executeQueryById returns
\* the value executeQuery returns for that body: the result payload of an
\* immediate response, what the poll returned for a job descriptor.
C24_EntryPointsUnwrapAlike ==
    (Done /\ Submitted /\ submitBody # None /\ outcome.kind = "returned")
        => outcome.value = IF Get(submitBody).job # None
                           THEN pollOutcome.value
                           ELSE Get(submitBody).query_result

\* C25: a submission response with a job field is polled, under that job's
\* id, and the operation ends as the poll ends, returning what the poll
\* returned; a result payload in the same body is ignored.
C25_JobTakesPrecedence ==
    (Submitted /\ submitBody # None /\ Get(submitBody).job # None)
        => /\ jobId = Get(Get(submitBody).job).id
           /\ outcome.kind = pollOutcome.kind
           /\ outcome.value = pollOutcome.value
           /\ outcome.kind = "returned"
                  => outcome.value # Get(submitBody).query_result

C25_Witness ==
    /\ Done
    /\ Submitted
    /\ submitBody = Some([shape |-> "SubmitBody", job |-> Some([id |-> "abc"]),
                          query_result |-> Some(QueryResult(10))])
    /\ fetches = 1
    /\ outcome = Returned(Some(QueryResult(42)))

\* C26: the timeout error is raised only where the loop condition is
\* evaluated, before a request; a response reporting Completed or Failed
\* decides the outcome however late it, or the result fetch after it,
\* arrives, and never leads to the timeout error.
C26_TerminalStatusBeatsDeadline ==
    /\ [](lastStatus \in {Some(Some(3)), Some(Some(4))}
             => /\ pc \in {"getResult", "done"}
                /\ terminalJob # None
                /\ ~TimedOut)
    /\ [][(TimedOut' /\ ~TimedOut) => (pc = "loop" /\ terminalJob = None)]_vars

C26_Witness ==
    /\ Done
    /\ CompletedWith(42)
    /\ Elapsed > timeout
    /\ pollOutcome = Returned(Some(QueryResult(42)))

\* C27: executeQuery never returns successfully with an absent value; a
\* submission response with neither a job descriptor nor a result payload
\* does not make it return undefined.
C27_ExecuteQueryReturnsAResult ==
    (Done /\ entry = "executeQuery" /\ outcome.kind = "returned")
        => outcome.value # None

\* the ways an operation ends
EndsReturned == outcome.kind = "returned"
EndsJobFailed ==
    /\ outcome.kind = "thrown"
    /\ Contains(pollOutcome.message, "Query execution failed: ")
EndsProtocolViolation ==
    /\ outcome.kind = "thrown"
    /\ \/ Contains(pollOutcome.message,
                   "Query completed but no query_result_id was provided")
       \/ Contains(pollOutcome.message,
                   "Cannot read properties of undefined (reading 'status')")
EndsRequestError == outcome.kind = "thrown" /\ rejected # None
EndsTimedOut == outcome.kind = "thrown" /\ TimedOut
Endings ==
    {e \in {"returned", "failed", "protocol", "request", "timeout"} :
        \/ e = "returned" /\ EndsReturned
        \/ e = "failed" /\ EndsJobFailed
        \/ e = "protocol" /\ EndsProtocolViolation
        \/ e = "request" /\ EndsRequestError
        \/ e = "timeout" /\ EndsTimedOut}

\* C21: when every request settles and every timer fires, an operation that
\* was invoked eventually ends, and it ends in exactly one way: a returned
\* value, a job-failed error, a protocol-violation error, a request error or
\* the timeout error; a job that stays non-terminal ends in the timeout error.
C21_EveryOperationTerminates ==
    /\ (pc \notin {"idle", "done"}) ~> Done
    /\ [](Done => Cardinality(Endings) = 1)
    /\ [](~Done => outcome = Pending)

C21_Witness ==
    /\ Done
    /\ entry = "executeQueryById"
    /\ terminalJob = None
    /\ nonTerminal = 3
    /\ jobReqs = 3
    /\ Endings = {"timeout"}

C28_ClientLifecycle ==
    /\ redashClient = lastBuilt
    /\ got # Pending
           => IF lastBuilt = None
              THEN /\ got.kind = "thrown"
                   /\ Contains(got.message, "RedashClient not initialized. Please call initializeRedashClient() first or ensure proper configuration is available.")
              ELSE got = Returned(lastBuilt)
    /\ initOutcome.kind = "returned" => initOutcome.value = redashClient
    /\ initOutcome.kind = "thrown"
           => (env.REDASH_URL = None \/ env.REDASH_API_KEY = None)

C28_Witness ==
    /\ initOutcome.kind = "thrown"
    /\ redashClient # None
    /\ got = Returned(redashClient)

====
